---- MODULE Spec2Model ----
(***************************************************************************)
(* frida-push: the two scripts src/frida_push/command.py ("command") and   *)
(* src/push.py ("push").  A run of main() is a sequence of steps, one per  *)
(* external call (device bridge, release host, local file system); the     *)
(* answers of the collaborators are the inputs of the steps.               *)
(***************************************************************************)
EXTENDS Integers, Sequences, FiniteSets, TLC

\* ------------------------------------------------------------ bounds
\* most devices the bridge lists
MaxDevices == 2
\* most whitespace bytes before, and after, a word the device prints
MaxPad == 2

\* ------------------------------------------------------------ Python values
\* A Python 3 string value: its type (bytes or str) and its ASCII codes.
Bytes(s) == [t |-> "bytes", s |-> s]
Str(s) == [t |-> "str", s |-> s]
None == [t |-> "none", s |-> <<>>]

s_armeabi == <<97, 114, 109, 101, 97, 98, 105>>  \* "armeabi"
s_armeabi_v7a == <<97, 114, 109, 101, 97, 98, 105, 45, 118, 55, 97>>  \* "armeabi-v7a"
s_arm64_v8a == <<97, 114, 109, 54, 52, 45, 118, 56, 97>>  \* "arm64-v8a"
s_x86 == <<120, 56, 54>>  \* "x86"
s_x86_64 == <<120, 56, 54, 95, 54, 52>>  \* "x86_64"
s_i386 == <<105, 51, 56, 54>>  \* "i386"
s_i686 == <<105, 54, 56, 54>>  \* "i686"
s_arm64 == <<97, 114, 109, 54, 52>>  \* "arm64"
s_arm == <<97, 114, 109>>  \* "arm"
s_aarch64 == <<97, 97, 114, 99, 104, 54, 52>>  \* "aarch64"
s_armv7l == <<97, 114, 109, 118, 55, 108>>  \* "armv7l"
s_mips == <<109, 105, 112, 115>>  \* "mips"
s_x86_sp_64 == <<120, 56, 54, 32, 54, 52>>  \* "x86 64"
s_armeabi_v7 == <<97, 114, 109, 101, 97, 98, 105, 45, 118, 55>>  \* "armeabi-v7"

\* bytes.lower(): the ASCII letters A-Z, and only they, are mapped to a-z.
lower(b) == [b EXCEPT !.s = [i \in 1..Len(b.s) |-> IF b.s[i] \in 65..90 THEN b.s[i] + 32 ELSE b.s[i]]]

\* The bytes that bytes.strip() removes: space, \t, \n, \v, \f, \r.
Whitespace == {32, 9, 10, 11, 12, 13}

RECURSIVE lstrip_seq(_)
lstrip_seq(s) == IF s = <<>> \/ Head(s) \notin Whitespace THEN s ELSE lstrip_seq(Tail(s))

RECURSIVE rstrip_seq(_)
rstrip_seq(s) == IF s = <<>> \/ s[Len(s)] \notin Whitespace THEN s ELSE rstrip_seq(SubSeq(s, 1, Len(s) - 1))

\* bytes.strip(): leading and trailing whitespace removed, inner whitespace kept.
strip(b) == [b EXCEPT !.s = rstrip_seq(lstrip_seq(b.s))]

\* bytes.decode("utf-8") and str(b, "utf-8"): ASCII bytes become the same
\* characters of a str.
decode(b) == Str(b.s)

\* Python's `x in list`: some element equals x; a bytes never equals a str.
In(x, list) == \E i \in 1..Len(list) : list[i] = x

\* ------------------------------------------------------------ command.py
getprop_archs == <<Str(s_armeabi), Str(s_armeabi_v7a), Str(s_arm64_v8a), Str(s_x86), Str(s_x86_64)>>

\* get_device_arch_output without the strip().
get_device_arch_output_no_strip(raw) == decode(lower(raw))

\* get_device_arch, from the bytes check_output returned to the result.
get_device_arch_output(raw) == decode(strip(lower(raw)))

get_device_arch(raw) ==
    LET output == get_device_arch_output(raw)
    IN  IF In(output, getprop_archs)
        THEN IF In(output, <<Str(s_armeabi), Str(s_armeabi_v7a)>>) THEN Str(s_arm)
             ELSE IF output = Str(s_arm64_v8a) THEN Str(s_arm64)
             ELSE output
        ELSE None

\* ------------------------------------------------------------ push.py
uname_archs == <<Str(s_i386), Str(s_i686), Str(s_arm64), Str(s_arm), Str(s_x86_64)>>

\* line 68: the uname answer, lower-cased, trimmed, and converted to str.
push_uname_output(raw) == decode(strip(lower(raw)))

\* line 79: the getprop answer, lower-cased and trimmed, left as bytes.
push_getprop_output(raw) == strip(lower(raw))

\* lines 81-89: the getprop branch, on the value line 79 computed.
push_getprop_arch(output) ==
    IF In(output, getprop_archs)
    THEN IF In(output, <<Str(s_armeabi), Str(s_armeabi_v7a)>>) THEN Str(s_arm)
         ELSE IF output = Str(s_arm64_v8a) THEN Str(s_arm64)
         ELSE IF output = Str(s_x86) THEN Str(s_i386)
         ELSE output
    ELSE None

\* get_device_arch of push.py: uname first, getprop when uname is unknown.
push_get_device_arch(unameRaw, propRaw) ==
    LET output == push_uname_output(unameRaw)
    IN  IF In(output, uname_archs)
        THEN IF In(output, <<Str(s_i386), Str(s_i686)>>) THEN Str(s_i386) ELSE output
        ELSE push_getprop_arch(push_getprop_output(propRaw))

\* ------------------------------------------------------------ inputs
\* The serial of the i-th device: "d1", "d2", ...
Serial(i) == Str(<<100, 48 + i>>)

\* The transport id the bridge prints for the i-th device: "1", "2", ...
TransportId(i) == Str(<<48 + i>>)

\* What list_devices can return: at most MaxDevices devices, each with its
\* properties; an old bridge prints no transport_id (None here).
DeviceMappings ==
    UNION { [S -> {None} \cup {TransportId(i) : i \in 1..MaxDevices}] : S \in SUBSET {Serial(i) : i \in 1..MaxDevices} }

\* A mapping as the bridge reports it: device i has transport id i, or none.
WellFormed(m) == \A i \in 1..MaxDevices : Serial(i) \in DOMAIN m => m[Serial(i)] \in {None, TransportId(i)}

\* -d: absent, the serial of a device that may be attached, or of one that is not.
RequestedNames == {None} \cup {Serial(i) : i \in 1..(MaxDevices + 1)}

\* The words a device may print for its architecture.
Words ==
    { <<>>, s_armeabi, s_armeabi_v7a, s_arm64_v8a, s_x86, s_x86_64, s_i386, s_i686,
      s_arm64, s_arm, s_aarch64, s_armv7l, s_mips, s_x86_sp_64, s_armeabi_v7 }

upper_seq(s) == [i \in 1..Len(s) |-> IF s[i] \in 97..122 THEN s[i] - 32 ELSE s[i]]

title_seq(s) == [i \in 1..Len(s) |-> IF i = 1 /\ s[i] \in 97..122 THEN s[i] - 32 ELSE s[i]]

Cased(s) == {s, upper_seq(s), title_seq(s)}

\* k bytes of leading whitespace: a prefix of " \t\v\f".
PadLeft(k) == SubSeq(<<32, 9, 11, 12>>, 1, k)

\* k bytes of trailing whitespace: a suffix of "\f \r\n".
PadRight(k) == SubSeq(<<12, 32, 13, 10>>, 5 - k, 4)

\* The bytes check_output can return for an architecture query.
RawOutputs ==
    { Bytes(PadLeft(l) \o c \o PadRight(r)) : l \in 0..MaxPad, r \in 0..MaxPad, c \in UNION {Cased(w) : w \in Words} }

\* The status codes the release host answers with.
StatusCodes == {200, 404, 503}

\* What the body of a 200 answer is: an xz archive of the server binary, an
\* xz archive of no bytes, or bytes that are no xz archive.
Bodies == {"xz_of_binary", "xz_of_nothing", "not_xz"}

\* lzma.open(archive).read(): the decompressed bytes; a corrupt archive raises.
lzma_read(archive) ==
    CASE archive = "xz_of_binary" -> "binary"
      [] archive = "xz_of_nothing" -> ""
      [] OTHER -> "LZMAError"

\* ------------------------------------------------------------ state
VARIABLES
    variant,        \* which script runs: "command" or "push"
    pc,             \* the next step of main()
    devices,        \* what the bridge lists: serial -> transport id
    device_name,    \* ops.device_name
    force,          \* ops.force
    requested,      \* the -d argument as given on the command line
    transport_id,   \* main's transport_id
    raw,            \* the bytes the getprop query returned
    uname_output,   \* push.py: `output` as line 68 set it
    output,         \* get_device_arch's `output` when it returns
    arch,           \* main's arch
    fs,             \* the two local paths of the run: "dest" and "xz"
    data,           \* download_and_extract's data
    dl_result,      \* what download_and_extract returned
    status_code,    \* req.status_code, 0 before any answer
    returncode,     \* the exit code of the transfer, -1 before it ran
    remote_file,    \* /data/local/tmp/frida-server on the device
    procs,          \* the frida-server processes running on the device
    pid_file,       \* the local file frida.pid
    trace,          \* the external operations performed so far, in order
    exit_code,      \* the process's exit status, -1 while it runs
    error           \* why the run ended early

vars == <<variant, pc, devices, device_name, force, requested, transport_id, raw, uname_output,
          output, arch, fs, data, dl_result, status_code, returncode, remote_file, procs, pid_file,
          trace, exit_code, error>>

archVars == <<raw, uname_output, output, arch>>
localVars == <<fs, data, dl_result, pid_file, status_code, returncode>>
deviceVars == <<remote_file, procs>>
argVars == <<variant, devices, force, requested>>

Did(op) == \E i \in 1..Len(trace) : trace[i] = op

\* op a happened, and every op b happened after some op a
Precedes(a, b) == \A j \in 1..Len(trace) : trace[j] = b => \E i \in 1..(j - 1) : trace[i] = a

Init ==
    /\ variant \in {"command", "push"}
    /\ pc = "main"
    /\ devices \in {m \in DeviceMappings : WellFormed(m)}
    /\ requested \in (IF variant = "command" THEN RequestedNames ELSE {None})
    /\ device_name = requested
    /\ force \in (IF variant = "command" THEN BOOLEAN ELSE {FALSE})
    /\ transport_id = None
    /\ raw = None
    /\ uname_output = None
    /\ output = None
    /\ arch = None
    /\ fs \in [{"dest", "xz"} -> {"absent", "stale"}]
    /\ data = "None"
    /\ dl_result = "None"
    /\ status_code = 0
    /\ returncode = -1
    /\ remote_file \in {"absent", "old"}
    /\ procs \in {{}, {"old_pid"}}
    /\ pid_file = [exists |-> FALSE, pids |-> {}]
    /\ trace = <<>>
    /\ exit_code = -1
    /\ error = "none"

\* The run ends: sys.exit(code), parser.exit(code), an uncaught exception
\* (status 1), or main() returning (status 0).
Exit(code, why) ==
    /\ pc' = "exit"
    /\ exit_code' = code
    /\ error' = why

Goto(label) ==
    /\ pc' = label
    /\ UNCHANGED <<exit_code, error>>

Log(ops) == trace' = trace \o ops

\* ------------------------------------------------------------ command.py: main
\* lines 194-199: list the devices; none is an error.
list_devices_step ==
    /\ variant = "command"
    /\ pc = "main"
    /\ Log(<<"adb_devices">>)
    /\ IF Cardinality(DOMAIN devices) = 0
       THEN Exit(1, "NoDevice")
       ELSE Goto("select")
    /\ UNCHANGED <<argVars, device_name, transport_id, archVars, localVars, deviceVars>>

\* select_error without the check for several devices.
select_error_no_ambiguity(devs, name) ==
    IF name # None /\ name \notin DOMAIN devs THEN "DeviceNotFound"
    ELSE "none"

\* lines 201-204: which error, if any, the selection ends with.
select_error(devs, name) ==
    IF Cardinality(DOMAIN devs) # 1 /\ name = None THEN "Ambiguous"
    ELSE IF name # None /\ name \notin DOMAIN devs THEN "DeviceNotFound"
    ELSE "none"

\* lines 206-207: the device the run works on.
selected_name(devs, name) ==
    IF name = None THEN CHOOSE d \in DOMAIN devs : TRUE ELSE name

\* lines 201-211: select the device and look up its transport id.
select_device_step ==
    /\ variant = "command"
    /\ pc = "select"
    /\ IF select_error(devices, device_name) # "none"
       THEN /\ Exit(2, select_error(devices, device_name))
            /\ UNCHANGED <<device_name, transport_id>>
       ELSE /\ device_name' = selected_name(devices, device_name)
            /\ IF devices[device_name'] = None
               THEN /\ Exit(1, "KeyError")
                    /\ UNCHANGED transport_id
               ELSE /\ transport_id' = devices[device_name']
                    /\ Goto("get_device_arch")
    /\ UNCHANGED <<argVars, archVars, localVars, deviceVars, trace>>

\* lines 72-93, 212: query the device; check_output raises when the bridge
\* exits non-zero.
get_device_arch_step ==
    /\ variant = "command"
    /\ pc = "get_device_arch"
    /\ Log(<<"adb_getprop">>)
    /\ \/ /\ Exit(1, "CalledProcessError")
          /\ UNCHANGED archVars
       \/ \E r \in RawOutputs :
            /\ raw' = r
            /\ output' = get_device_arch_output(r)
            /\ arch' = get_device_arch(r)
            /\ uname_output' = None
            /\ Goto("if_arch")
    /\ UNCHANGED <<argVars, device_name, transport_id, localVars, deviceVars>>

\* arch_found taking every answer for an architecture.
arch_found_always(a) == TRUE

\* Python's truth value of arch: None and "" are false.
arch_found(a) == a # None /\ a.s # <<>>

\* lines 214-221: go on when an architecture was found, else return.
if_arch_step ==
    /\ variant = "command"
    /\ pc = "if_arch"
    /\ IF arch_found(arch)
       THEN Goto("download_and_extract")
       ELSE Exit(0, "ArchUndetermined")
    /\ raw' = None
    /\ output' = None
    /\ UNCHANGED <<argVars, device_name, transport_id, uname_output, arch, localVars, deviceVars, trace>>

\* cache_hit with the force flag inverted.
cache_hit_when_forced(files, forced) == files["dest"] # "absent" /\ forced

\* line 117: the cache holds the file and no download is forced.
cache_hit(files, forced) == files["dest"] # "absent" /\ ~forced

\* lines 109-119: make the cache directory; a cache hit returns True.
cache_check_step ==
    /\ variant = "command"
    /\ pc = "download_and_extract"
    /\ Log(<<"makedirs">>)
    /\ IF cache_hit(fs, force)
       THEN /\ dl_result' = "True"
            /\ Goto("push_and_execute")
       ELSE /\ UNCHANGED dl_result
            /\ Goto("http_get")
    /\ UNCHANGED <<argVars, device_name, transport_id, archVars, fs, data, pid_file, status_code, returncode, deviceVars>>

\* status_ok taking every status below 500 for a success.
status_ok_below_500(code) == code < 500

\* line 123: the answer is a success.
status_ok(code) == code = 200

\* lines 121-123, 136-144: the request; requests.get raises when the host
\* is unreachable; any status but 200 leaves data None and returns False,
\* and main (line 218) returns.
http_get_step ==
    /\ variant = "command"
    /\ pc = "http_get"
    /\ Log(<<"http_get">>)
    /\ \/ /\ Exit(1, "ConnectionError")
          /\ UNCHANGED <<dl_result, status_code>>
       \/ \E code \in StatusCodes :
            /\ status_code' = code
            /\ IF status_ok(code)
               THEN /\ Goto("write_archive")
                    /\ UNCHANGED dl_result
               ELSE /\ dl_result' = "False"
                    /\ Exit(0, "DownloadError")
    /\ UNCHANGED <<argVars, device_name, transport_id, archVars, fs, data, pid_file, returncode, deviceVars>>

\* lines 125-130: the body is written to fname + ".xz".
write_archive_step ==
    /\ variant = "command"
    /\ pc = "write_archive"
    /\ Log(<<"write_xz">>)
    /\ \E body \in Bodies : fs' = [fs EXCEPT !["xz"] = body]
    /\ Goto("lzma_read")
    /\ UNCHANGED <<argVars, device_name, transport_id, archVars, data, dl_result, pid_file, status_code, returncode, deviceVars>>

\* lines 132-133: the archive is read back and decompressed in one step.
lzma_read_step ==
    /\ variant = "command"
    /\ pc = "lzma_read"
    /\ Log(<<"read_xz">>)
    /\ IF lzma_read(fs["xz"]) = "LZMAError"
       THEN /\ Exit(1, "LZMAError")
            /\ UNCHANGED data
       ELSE /\ data' = lzma_read(fs["xz"])
            /\ Goto("unlink")
    /\ UNCHANGED <<argVars, device_name, transport_id, archVars, fs, dl_result, pid_file, status_code, returncode, deviceVars>>

\* unlink_step with the archive left on disk.
unlink_step_keeps_archive ==
    /\ variant = "command"
    /\ pc = "unlink"
    /\ Goto("write_file")
    /\ UNCHANGED <<argVars, device_name, transport_id, archVars, localVars, deviceVars, trace>>

\* line 135: the archive is removed.
unlink_step ==
    /\ variant = "command"
    /\ pc = "unlink"
    /\ Log(<<"unlink_xz">>)
    /\ fs' = [fs EXCEPT !["xz"] = "absent"]
    /\ Goto("write_file")
    /\ UNCHANGED <<argVars, device_name, transport_id, archVars, data, dl_result, pid_file, status_code, returncode, deviceVars>>

\* Python's truth value of data: None and b"" are false.
has_data(d) == d \notin {"None", ""}

\* lines 139-144, 218: data is written to fname and True returned; with no
\* data False is returned and main returns.
write_file_step ==
    /\ variant = "command"
    /\ pc = "write_file"
    /\ IF has_data(data)
       THEN /\ Log(<<"write_dest">>)
            /\ fs' = [fs EXCEPT !["dest"] = data]
            /\ dl_result' = "True"
            /\ Goto("push_and_execute")
       ELSE /\ dl_result' = "False"
            /\ Exit(0, "NoData")
            /\ UNCHANGED <<fs, trace>>
    /\ UNCHANGED <<argVars, device_name, transport_id, archVars, data, pid_file, status_code, returncode, deviceVars>>

\* ------------------------------------------------------------ command.py: push_and_execute
\* push_ok with the exit code not looked at.
push_ok_unchecked(rc) == TRUE

\* line 163: the transfer succeeded.
push_ok(rc) == rc = 0

\* lines 153-167, 219: the file is transferred; a failed transfer is
\* reported and ends the function, and main returns.  Nothing is rolled
\* back: a failed transfer may leave a partial file on the device.
push_step ==
    /\ variant = "command"
    /\ pc = "push_and_execute"
    /\ Log(<<"adb_push">>)
    /\ \E rc \in {0, 1} :
         /\ returncode' = rc
         /\ IF push_ok(rc)
            THEN /\ remote_file' = "new"
                 /\ Goto("chmod")
            ELSE /\ remote_file' \in {remote_file, "partial"}
                 /\ Exit(0, "PushError")
    /\ UNCHANGED <<argVars, device_name, transport_id, archVars, fs, data, dl_result, pid_file, status_code, procs>>

\* chmod_step going on to the launch, with no kill.
chmod_step_skips_kill ==
    /\ variant = "command"
    /\ pc = "chmod"
    /\ Log(<<"adb_chmod">>)
    /\ Goto("execute")
    /\ UNCHANGED <<argVars, device_name, transport_id, archVars, localVars, deviceVars>>

\* line 168: chmod 0755; its exit code is not looked at.
chmod_step ==
    /\ variant = "command"
    /\ pc = "chmod"
    /\ Log(<<"adb_chmod">>)
    /\ Goto("kill")
    /\ UNCHANGED <<argVars, device_name, transport_id, archVars, localVars, deviceVars>>

\* lines 170-171: killall frida-server; its exit code is not looked at.
kill_step ==
    /\ variant = "command"
    /\ pc = "kill"
    /\ Log(<<"adb_killall">>)
    /\ \E killed \in BOOLEAN : procs' = IF killed THEN {} ELSE procs
    /\ Goto("execute")
    /\ UNCHANGED <<argVars, device_name, transport_id, archVars, localVars, remote_file>>

\* lines 173-182: the server is launched and waited for 3 seconds: still
\* running (ret_code None), exited 0, or exited non-zero (logged).  The
\* function returns in every case, and so does main.
execute_step ==
    /\ variant = "command"
    /\ pc = "execute"
    /\ Log(<<"adb_execute">>)
    /\ \E outcome \in {"running", "exit_0", "exit_nonzero"} :
         /\ procs' = IF outcome = "running" THEN procs \cup {"new_pid"} ELSE procs
         /\ Exit(0, IF outcome = "exit_nonzero" THEN "LaunchError" ELSE "none")
    /\ UNCHANGED <<argVars, device_name, transport_id, archVars, localVars, remote_file>>

\* ------------------------------------------------------------ push.py: main
\* lines 39-49, 155-157: is any device listed?
device_exists_step ==
    /\ variant = "push"
    /\ pc = "main"
    /\ Log(<<"adb_devices">>)
    /\ IF Cardinality(DOMAIN devices) = 0
       THEN Exit(1, "NoDevice")
       ELSE Goto("uname")
    /\ UNCHANGED <<argVars, device_name, transport_id, archVars, localVars, deviceVars>>

\* lines 65-74: the uname query of get_device_arch.
push_uname_step ==
    /\ variant = "push"
    /\ pc = "uname"
    /\ Log(<<"adb_uname">>)
    /\ \/ /\ Exit(1, "CalledProcessError")
          /\ UNCHANGED archVars
       \/ \E u \in RawOutputs :
            /\ uname_output' = push_uname_output(u)
            /\ IF In(uname_output', uname_archs)
               THEN /\ output' = uname_output'
                    /\ arch' = push_get_device_arch(u, None)
                    /\ Goto("if_arch")
               ELSE /\ UNCHANGED <<output, arch>>
                    /\ Goto("getprop")
            /\ UNCHANGED raw
    /\ UNCHANGED <<argVars, device_name, transport_id, localVars, deviceVars>>

\* lines 75-90: the getprop query of get_device_arch, made when uname's
\* answer is not in uname_archs.
push_getprop_step ==
    /\ variant = "push"
    /\ pc = "getprop"
    /\ Log(<<"adb_getprop">>)
    /\ \/ /\ Exit(1, "CalledProcessError")
          /\ UNCHANGED archVars
       \/ \E g \in RawOutputs :
            /\ raw' = g
            /\ output' = push_getprop_output(g)
            /\ arch' = push_getprop_arch(output')
            /\ UNCHANGED uname_output
            /\ Goto("if_arch")
    /\ UNCHANGED <<argVars, device_name, transport_id, localVars, deviceVars>>

\* lines 162-169: go on when an architecture was found, else return.
push_if_arch_step ==
    /\ variant = "push"
    /\ pc = "if_arch"
    /\ IF arch_found(arch)
       THEN Goto("http_get")
       ELSE Exit(0, "ArchUndetermined")
    /\ raw' = None
    /\ output' = None
    /\ uname_output' = None
    /\ UNCHANGED <<argVars, device_name, transport_id, arch, localVars, deviceVars, trace>>

\* line 108: the answer is a success.
push_status_ok(code) == code = 200

\* lines 106-108, 119-128, 166: the request; any status but 200 leaves data
\* None and returns False, and main returns.
push_http_get_step ==
    /\ variant = "push"
    /\ pc = "http_get"
    /\ Log(<<"http_get">>)
    /\ \/ /\ Exit(1, "ConnectionError")
          /\ UNCHANGED <<dl_result, status_code>>
       \/ \E code \in StatusCodes :
            /\ status_code' = code
            /\ IF push_status_ok(code)
               THEN /\ Goto("write_archive")
                    /\ UNCHANGED dl_result
               ELSE /\ dl_result' = "False"
                    /\ Exit(0, "DownloadError")
    /\ UNCHANGED <<argVars, device_name, transport_id, archVars, fs, data, pid_file, returncode, deviceVars>>

\* lines 110-115: the body is written to fname + ".xz".
push_write_archive_step ==
    /\ variant = "push"
    /\ pc = "write_archive"
    /\ Log(<<"write_xz">>)
    /\ \E body \in Bodies : fs' = [fs EXCEPT !["xz"] = body]
    /\ Goto("lzma_read")
    /\ UNCHANGED <<argVars, device_name, transport_id, archVars, data, dl_result, pid_file, status_code, returncode, deviceVars>>

\* lines 117-118: the archive is read back and decompressed; it stays on disk.
push_lzma_read_step ==
    /\ variant = "push"
    /\ pc = "lzma_read"
    /\ Log(<<"read_xz">>)
    /\ IF lzma_read(fs["xz"]) = "LZMAError"
       THEN /\ Exit(1, "LZMAError")
            /\ UNCHANGED data
       ELSE /\ data' = lzma_read(fs["xz"])
            /\ Goto("write_file")
    /\ UNCHANGED <<argVars, device_name, transport_id, archVars, fs, dl_result, pid_file, status_code, returncode, deviceVars>>

\* lines 123-128, 166: data is written to fname and True returned; with no
\* data False is returned and main returns.
push_write_file_step ==
    /\ variant = "push"
    /\ pc = "write_file"
    /\ IF has_data(data)
       THEN /\ Log(<<"write_dest">>)
            /\ fs' = [fs EXCEPT !["dest"] = data]
            /\ dl_result' = "True"
            /\ Goto("push_and_execute")
       ELSE /\ dl_result' = "False"
            /\ Exit(0, "NoData")
            /\ UNCHANGED <<fs, trace>>
    /\ UNCHANGED <<argVars, device_name, transport_id, archVars, data, pid_file, status_code, returncode, deviceVars>>

\* line 141: the transfer succeeded.
push_push_ok(rc) == rc = 0

\* lines 135-142, 149-150: the file is transferred; a failed transfer is
\* reported and ends the function.
push_push_step ==
    /\ variant = "push"
    /\ pc = "push_and_execute"
    /\ Log(<<"adb_push">>)
    /\ \E rc \in {0, 1} :
         /\ returncode' = rc
         /\ IF push_push_ok(rc)
            THEN /\ remote_file' = "new"
                 /\ Goto("chmod")
            ELSE /\ remote_file' \in {remote_file, "partial"}
                 /\ Exit(0, "PushError")
    /\ UNCHANGED <<argVars, device_name, transport_id, archVars, fs, data, dl_result, pid_file, status_code, procs>>

\* line 143: chmod 0755; its exit code is not looked at.
push_chmod_step ==
    /\ variant = "push"
    /\ pc = "chmod"
    /\ Log(<<"adb_chmod">>)
    /\ Goto("execute")
    /\ UNCHANGED <<argVars, device_name, transport_id, archVars, localVars, deviceVars>>

\* lines 144-145: the server is launched in the background of the local
\* shell; os.system returns at once, whether or not the server came up.
push_execute_step ==
    /\ variant = "push"
    /\ pc = "execute"
    /\ Log(<<"adb_execute">>)
    /\ \E started \in BOOLEAN : procs' = IF started THEN procs \cup {"new_pid"} ELSE procs
    /\ Goto("save_pid")
    /\ UNCHANGED <<argVars, device_name, transport_id, archVars, localVars, remote_file>>

\* lines 146-147: the PIDs of the frida-server lines of ps are written to
\* frida.pid, one per line; then push_and_execute and main return.
save_pid_step ==
    /\ variant = "push"
    /\ pc = "save_pid"
    /\ Log(<<"adb_ps", "write_pid_file">>)
    /\ pid_file' = [exists |-> TRUE, pids |-> procs]
    /\ Exit(0, "none")
    /\ UNCHANGED <<argVars, device_name, transport_id, archVars, fs, data, dl_result, status_code, returncode, deviceVars>>

Next ==
    \/ list_devices_step
    \/ select_device_step
    \/ get_device_arch_step
    \/ if_arch_step
    \/ cache_check_step
    \/ http_get_step
    \/ write_archive_step
    \/ lzma_read_step
    \/ unlink_step
    \/ write_file_step
    \/ push_step
    \/ chmod_step
    \/ kill_step
    \/ execute_step
    \/ device_exists_step
    \/ push_uname_step
    \/ push_getprop_step
    \/ push_if_arch_step
    \/ push_http_get_step
    \/ push_write_archive_step
    \/ push_lzma_read_step
    \/ push_write_file_step
    \/ push_push_step
    \/ push_chmod_step
    \/ push_execute_step
    \/ save_pid_step

Spec == Init /\ [][Next]_vars

\* ------------------------------------------------------------ claims
SelectionErrors == {"NoDevice", "Ambiguous", "DeviceNotFound"}

\* The run has ended with a non-zero exit status and the error `why`.
Failed(why) == pc = "exit" /\ exit_code # 0 /\ error = why

\* C1: device selection in command.py's main, the cases taken in the order
\* of the code: with no device the run fails with NoDevice; with one device
\* and no -d that device is selected; with several devices and no -d the run
\* fails with Ambiguous; with a -d that is no key of the (non-empty) mapping
\* the run fails with DeviceNotFound; and a run that failed so has made no
\* architecture query, no download and no transfer.
C1_DeviceSelection ==
    (variant = "command" /\ pc \notin {"main", "select"}) =>
        LET n == Cardinality(DOMAIN devices)
        IN  /\ n = 0 => Failed("NoDevice")
            /\ (n = 1 /\ requested = None) =>
                   /\ DOMAIN devices = {device_name}
                   /\ error \notin SelectionErrors
            /\ (n > 1 /\ requested = None) => Failed("Ambiguous")
            /\ (n > 0 /\ requested # None /\ requested \notin DOMAIN devices) => Failed("DeviceNotFound")
            /\ error \in SelectionErrors =>
                   /\ exit_code # 0
                   /\ ~Did("adb_getprop") /\ ~Did("http_get") /\ ~Did("adb_push")

\* Two devices and no -d: the run has ended with the ambiguous-selection error.
C1_Witness ==
    /\ variant = "command"
    /\ Cardinality(DOMAIN devices) = 2
    /\ requested = None
    /\ Failed("Ambiguous")

\* The architecture keys of the release names.
ArchitectureKeys == {Str(s_arm), Str(s_arm64), Str(s_x86), Str(s_x86_64), Str(s_i386)}

\* The operations on the device itself: remote shell commands and transfers.
DeviceOps == {"adb_getprop", "adb_uname", "adb_push", "adb_chmod", "adb_killall", "adb_execute", "adb_ps"}

\* The operations that change the device.
DeployOps == {"adb_push", "adb_chmod", "adb_killall", "adb_execute", "adb_ps"}

\* C2 as stated, for the runs whose queries the bridge answered: either
\* exactly one architecture key is selected, or the run has aborted before
\* any network operation and before any device operation.
C2_Original ==
    (pc = "exit" /\ error # "CalledProcessError") =>
        \/ arch \in ArchitectureKeys
        \/ (~Did("http_get") /\ \A op \in DeviceOps : ~Did(op))

\* C2 amended: whenever a run has touched the cache directory, the network
\* or changed the device, exactly one architecture key is selected;
\* otherwise it selects none and ends having made at most the device listing
\* and the architecture queries.
C2_ArchOrAbort ==
    /\ arch = None \/ arch \in ArchitectureKeys
    /\ (Did("makedirs") \/ Did("http_get") \/ \E op \in DeployOps : Did(op)) => arch \in ArchitectureKeys
    /\ (pc = "exit" /\ arch = None) =>
           \A i \in 1..Len(trace) : trace[i] \in {"adb_devices", "adb_getprop", "adb_uname"}

\* A run whose architecture query was answered with an unknown word has
\* ended after the query, with nothing downloaded or deployed.
C2_Witness ==
    /\ pc = "exit"
    /\ error = "ArchUndetermined"
    /\ arch = None
    /\ Did("adb_getprop")
    /\ ~Did("http_get")

\* a is the byte b, or the upper-case letter of which b is the lower case
SameLetter(a, b) == a = b \/ (a \in 65..90 /\ b = a + 32)

\* The bytes r are the word w, in any case, between leading and trailing
\* whitespace only.
Reports(r, w) ==
    \E i \in 1..(Len(r.s) + 1) :
        /\ i + Len(w) - 1 <= Len(r.s)
        /\ \A k \in 1..(i - 1) : r.s[k] \in {9, 10, 11, 12, 13, 32}
        /\ \A k \in (i + Len(w))..Len(r.s) : r.s[k] \in {9, 10, 11, 12, 13, 32}
        /\ \A k \in 1..Len(w) : SameLetter(r.s[i + k - 1], w[k])

\* The normalization table of command.py: reported word, canonical key.
CommandTable ==
    { <<s_armeabi, s_arm>>, <<s_armeabi_v7a, s_arm>>, <<s_arm64_v8a, s_arm64>>,
      <<s_x86, s_x86>>, <<s_x86_64, s_x86_64>> }

\* C3: get_device_arch of command.py returns, for the bytes the device
\* reported, the canonical key of the table entry they spell once
\* lower-cased and trimmed, None when they spell no entry, and never
\* anything but None or one of arm, arm64, x86, x86_64, i386.
C3_Normalization ==
    (variant = "command" /\ pc = "if_arch") =>
        /\ \A e \in CommandTable : Reports(raw, e[1]) => arch = Str(e[2])
        /\ (\A e \in CommandTable : ~Reports(raw, e[1])) => arch = None
        /\ arch = None \/ arch \in ArchitectureKeys

\* " ARM64-V8A\r\n" was reported and arm64 returned.
C3_Witness ==
    /\ variant = "command"
    /\ pc = "if_arch"
    /\ raw = Bytes(<<32>> \o upper_seq(s_arm64_v8a) \o <<13, 10>>)
    /\ arch = Str(s_arm64)

\* download_and_extract of command.py is entered with the destination file
\* in the cache and no download forced.
CacheHitCall ==
    /\ variant = "command"
    /\ pc = "download_and_extract"
    /\ fs["dest"] # "absent"
    /\ ~force

\* C4: a call of command.py's download_and_extract that finds the
\* destination file in the cache, with force false, returns True, leaves
\* both local files as they were and goes on to the transfer; and a run in
\* which that call returned from the cache makes no HTTP request.
C4_CacheHit ==
    /\ [][CacheHitCall =>
            /\ dl_result' = "True"
            /\ fs' = fs
            /\ pc' = "push_and_execute"
            /\ \A i \in 1..Len(trace') : trace'[i] # "http_get"]_vars
    /\ []((variant = "command" /\ dl_result = "True" /\ ~Did("write_dest")) =>
            /\ ~Did("http_get")
            /\ fs["dest"] = "stale"
            /\ ~force)

\* The cached file was used and the run has gone on to the transfer.
C4_Witness ==
    /\ variant = "command"
    /\ ~force
    /\ fs["dest"] = "stale"
    /\ dl_result = "True"
    /\ Did("adb_push")
    /\ ~Did("http_get")

\* C5: whenever the release host answered with a status other than 200,
\* download_and_extract has returned False, neither the archive nor the
\* destination file has been written, the run has ended, and no transfer
\* to the device has been made.
C5_DownloadError ==
    (status_code # 0 /\ status_code # 200) =>
        /\ dl_result = "False"
        /\ ~Did("write_xz") /\ ~Did("write_dest")
        /\ fs \in [{"dest", "xz"} -> {"absent", "stale"}]
        /\ ~Did("adb_push")
        /\ pc = "exit"

\* The host answered 404 and the run has ended without a transfer.
C5_Witness ==
    /\ status_code = 404
    /\ dl_result = "False"
    /\ pc = "exit"
    /\ ~Did("adb_push")

\* C6: whenever the transfer exited non-zero, the run has ended and no
\* chmod, kill, launch or PID capture has been made, in both scripts.
C6_PushFailureHalts ==
    (returncode # -1 /\ returncode # 0) =>
        /\ Did("adb_push")
        /\ ~Did("adb_chmod") /\ ~Did("adb_killall") /\ ~Did("adb_execute")
        /\ ~Did("adb_ps") /\ ~Did("write_pid_file")
        /\ pc = "exit"

\* A transfer of command.py has failed and the run has ended.
C6_Witness ==
    /\ variant = "command"
    /\ returncode = 1
    /\ pc = "exit"
    /\ error = "PushError"

\* C7: every run that transferred the file and launched the server has, when
\* it ends, written the PID of the launched server to frida.pid.
C7_PidRecorded ==
    (pc = "exit" /\ returncode = 0 /\ Did("adb_execute") /\ "new_pid" \in procs) =>
        /\ Did("write_pid_file")
        /\ pid_file.exists
        /\ "new_pid" \in pid_file.pids

\* The operations of download_and_extract on the two local files.
IsFileOp(op) == op \in {"write_xz", "read_xz", "unlink_xz", "write_dest"}

\* download_and_extract has returned True after a download.
Downloaded == dl_result = "True" /\ Did("http_get")

\* C8 as stated: the decompressed bytes are written to the destination
\* first and the archive is removed only then; and when the function has
\* returned True after a download the destination holds the decompressed
\* data and the archive no longer exists.
C8_Original ==
    /\ Did("unlink_xz") => (Did("write_dest") /\ Precedes("write_dest", "unlink_xz"))
    /\ Downloaded => (fs["dest"] = "binary" /\ fs["xz"] = "absent")

\* C8 amended: command.py's download_and_extract writes the archive, reads
\* and decompresses it, removes it and only then writes the decompressed
\* bytes to the destination; push.py's writes the archive, reads it and
\* writes the destination, and never removes the archive.  When either has
\* returned True after a download the destination holds the decompressed
\* data; the archive no longer exists in command.py and is still on disk
\* in push.py.
C8_WriteAndRemove ==
    Downloaded =>
        /\ fs["dest"] = "binary"
        /\ variant = "command" =>
               /\ SelectSeq(trace, IsFileOp) = <<"write_xz", "read_xz", "unlink_xz", "write_dest">>
               /\ fs["xz"] = "absent"
        /\ variant = "push" =>
               /\ SelectSeq(trace, IsFileOp) = <<"write_xz", "read_xz", "write_dest">>
               /\ fs["xz"] = "xz_of_binary"

\* command.py has downloaded, removed the archive and written the file.
C8_Witness ==
    /\ variant = "command"
    /\ Downloaded
    /\ Did("unlink_xz")
    /\ fs["dest"] = "binary"
    /\ fs["xz"] = "absent"

\* The steps of the deploy sequence.
IsDeployOp(op) == op \in {"adb_push", "adb_chmod", "adb_killall", "adb_execute"}

\* C9 as stated: in every run that reaches the launch, the steps push,
\* chmod, kill, launch have been made in this order, each exactly once.
C9_Original ==
    Did("adb_execute") =>
        SelectSeq(trace, IsDeployOp) = <<"adb_push", "adb_chmod", "adb_killall", "adb_execute">>

\* C9 amended: in every run of command.py that reaches the launch, the
\* steps push, chmod, kill, launch have been made in this order, each
\* exactly once, whether or not an instance was running before; in every
\* run of push.py that reaches the launch the steps are push, chmod, launch,
\* each exactly once, and no kill is made.
C9_DeployOrder ==
    Did("adb_execute") =>
        /\ variant = "command" =>
               SelectSeq(trace, IsDeployOp) = <<"adb_push", "adb_chmod", "adb_killall", "adb_execute">>
        /\ variant = "push" =>
               SelectSeq(trace, IsDeployOp) = <<"adb_push", "adb_chmod", "adb_execute">>

\* command.py has launched the server on a device; an instance that ran
\* before survived the kill.
C9_Witness ==
    /\ variant = "command"
    /\ pc = "exit"
    /\ Did("adb_execute")
    /\ procs = {"old_pid", "new_pid"}

\* The getprop table of push.py: reported word, normalized key.
PushGetpropTable ==
    { <<s_armeabi, s_arm>>, <<s_armeabi_v7a, s_arm>>, <<s_arm64_v8a, s_arm64>>,
      <<s_x86, s_i386>>, <<s_x86_64, s_x86_64>> }

\* C10: when get_device_arch of push.py returns after the getprop query
\* (uname's answer, lower-cased and trimmed, is not in the uname table) and
\* getprop's answer, lower-cased and trimmed, spells an entry of the
\* getprop table, it returns the normalized key of that entry.
C10_GetpropFallback ==
    (variant = "push" /\ pc = "if_arch" /\ ~In(uname_output, uname_archs)) =>
        \A e \in PushGetpropTable : Reports(raw, e[1]) => arch = Str(e[2])

====
